---- MODULE Spec2Model ----
(***************************************************************************)
(* Model of the invoice dashboard's server actions (createInvoice,         *)
(* updateInvoice, deleteInvoice, authenticate) and of the route            *)
(* authorization callback (authConfig.callbacks.authorized).               *)
(*                                                                         *)
(* Strings whose characters the code inspects (the amount handed to        *)
(* Number(), the pathname handed to startsWith) are sequences of           *)
(* one-character strings; all other strings are TLA+ strings.              *)
(* A JavaScript number is a record [nan, m]: m is the value multiplied by  *)
(* Scale, so that decimal fractions of up to FracDigits digits are exact.  *)
(***************************************************************************)
EXTENDS Integers, Sequences, FiniteSets, TLC

VARIABLES invoices, now, dbUp, op, args, validatedFields, result, effects,
          input, output

vars == <<invoices, now, dbUp, op, args, validatedFields, result, effects,
          input, output>>

(* ------------------------------ bounds -------------------------------- *)

\* rows the invoices table may hold; ids are 1..MaxRows
MaxRows == 2
\* last reading of the clock
MaxClock == 2
\* clock readings per calendar day
TicksPerDay == 2
\* decimal digits kept after the point
FracDigits == 3

Pow10(n) ==
    LET p[i \in 0..n] == IF i = 0 THEN 1 ELSE 10 * p[i - 1]
    IN  p[n]

Scale == Pow10(FracDigits)

(* --------------------------- JavaScript values ------------------------ *)

Null == [kind |-> "null", value |-> ""]
File == [kind |-> "file", value |-> ""]
Str(s) == [kind |-> "string", value |-> s]

NullChars == [kind |-> "null", chars |-> <<>>]
Chars(cs) == [kind |-> "string", chars |-> cs]

NaN == [nan |-> TRUE, m |-> 0]
Num(m) == [nan |-> FALSE, m |-> m]
Whole(k) == Num(k * Scale)

Digits == {"0", "1", "2", "3", "4", "5", "6", "7", "8", "9"}

DigitVal(c) ==
    CASE c = "0" -> 0 [] c = "1" -> 1 [] c = "2" -> 2 [] c = "3" -> 3
      [] c = "4" -> 4 [] c = "5" -> 5 [] c = "6" -> 6 [] c = "7" -> 7
      [] c = "8" -> 8 [] c = "9" -> 9

AllDigits(cs) == \A i \in 1..Len(cs) : cs[i] \in Digits

\* the digits before the point
IntVal(cs) ==
    LET v[i \in 0..Len(cs)] == IF i = 0 THEN 0 ELSE 10 * v[i - 1] + DigitVal(cs[i])
    IN  v[Len(cs)]

\* the digits after the point, as a multiple of 1/Scale
FracVal(cs) ==
    LET v[i \in 0..Len(cs)] ==
            IF i = 0 THEN 0 ELSE v[i - 1] + DigitVal(cs[i]) * (Scale \div Pow10(i))
    IN  v[Len(cs)]

PointAt(cs) ==
    IF \E i \in 1..Len(cs) : cs[i] = "."
    THEN CHOOSE i \in 1..Len(cs) : cs[i] = "." /\ \A j \in 1..(i - 1) : cs[j] # "."
    ELSE Len(cs) + 1

\* digits, a point, digits: the literal's value, NaN when it is none
Decimal(int, frac) ==
    IF AllDigits(int) /\ AllDigits(frac) /\ Len(int) + Len(frac) > 0
    THEN Num(IntVal(int) * Scale + FracVal(frac))
    ELSE NaN

SplitAt(cs, p) == Decimal(SubSeq(cs, 1, p - 1), SubSeq(cs, p + 1, Len(cs)))

\* an unsigned decimal literal: digits, optionally a point and more digits
UnsignedNumber(cs) == SplitAt(cs, PointAt(cs))

Negate(n) == IF n.nan THEN NaN ELSE Num(0 - n.m)

\* Number(x) for the values FormData.get can return
ToNumber(v) ==
    IF v.kind = "null" THEN Num(0)
    ELSE IF v.chars = <<>> THEN Num(0)
    ELSE IF Head(v.chars) = "-" THEN Negate(UnsignedNumber(Tail(v.chars)))
    ELSE IF Head(v.chars) = "+" THEN UnsignedNumber(Tail(v.chars))
    ELSE UnsignedNumber(v.chars)

\* amount * 100
Times100(n) == IF n.nan THEN NaN ELSE Num(n.m * 100)

\* Math.round: the nearest integer, halves upwards
Round(n) == IF n.nan THEN NaN ELSE Num(((2 * n.m + Scale) \div (2 * Scale)) * Scale)

IsInteger(n) == ~n.nan /\ n.m % Scale = 0

(* ------------------------------ formSchema ---------------------------- *)

\* z.string({ invalid_type_error }) : any string passes, the empty one too
CustomerIdIssues(v) ==
    IF v.kind = "string" THEN <<>> ELSE <<"Please select a customer">>

\* as NumberIssues, with .gte(0) in place of .gt(0)
NumberIssuesGte(n) ==
    IF n.nan THEN <<"Expected number, received nan">>
    ELSE IF n.m >= 0 THEN <<>>
    ELSE <<"Please enter an amount greater tahn $0.">>

\* z.number().gt(0, { message }) on the coerced value
NumberIssues(n) ==
    IF n.nan THEN <<"Expected number, received nan">>
    ELSE IF n.m > 0 THEN <<>>
    ELSE <<"Please enter an amount greater tahn $0.">>

\* z.coerce.number().gt(0, { message })
AmountIssues(v) == NumberIssues(ToNumber(v))

\* z.enum(['pending', 'paid'], { invalid_type_error })
StatusIssues(v) ==
    IF v.kind # "string" THEN <<"Please select an invoice status">>
    ELSE IF v.value \in {"pending", "paid"} THEN <<>>
    ELSE <<"Invalid enum value. Expected 'pending' | 'paid', received '"
             \o v.value \o "'">>

FieldIssues(formData) ==
    [customerId |-> CustomerIdIssues(formData.customerId),
     amount |-> AmountIssues(formData.amount),
     status |-> StatusIssues(formData.status)]

\* the parse result, with error.flatten().fieldErrors already taken: only
\* offending fields are keys
ParseResult(formData, issues, bad) ==
    IF bad = {}
    THEN [success |-> TRUE,
          data |-> [customerId |-> formData.customerId.value,
                    amount |-> ToNumber(formData.amount),
                    status |-> formData.status.value],
          fieldErrors |-> <<>>]
    ELSE [success |-> FALSE,
          data |-> <<>>,
          fieldErrors |-> [f \in bad |-> issues[f]]]

Flatten(formData, issues) ==
    ParseResult(formData, issues, {f \in DOMAIN issues : issues[f] # <<>>})

\* CreateInvoice.safeParse / UpdateInvoice.safeParse
safeParse(formData) == Flatten(formData, FieldIssues(formData))

(* ------------------------- results and effects ------------------------ *)

NoErrors == [f \in {} |-> <<>>]

None == [kind |-> "none", value |-> "", to |-> "", errors |-> NoErrors]
\* return { errors, message }
ReturnState(errors, message) ==
    [kind |-> "return", value |-> message, to |-> "", errors |-> errors]
\* return value: a string, a boolean or undefined, written as a string
Return(value) == [kind |-> "return", value |-> value, to |-> "", errors |-> NoErrors]
\* return Response.redirect(new URL(path, nextUrl))
ReturnRedirect(path) ==
    [kind |-> "return", value |-> "Response.redirect", to |-> path, errors |-> NoErrors]
\* an exception leaving the function
Throw(message) == [kind |-> "throw", value |-> message, to |-> "", errors |-> NoErrors]
\* redirect(path) of next/navigation: ends the action by navigating away
Redirect(path) == [kind |-> "redirect", value |-> "", to |-> path, errors |-> NoErrors]

Sql(statement, ok) == [fn |-> "sql", arg |-> statement, ok |-> ok]
RevalidatePath(path) == [fn |-> "revalidatePath", arg |-> path, ok |-> TRUE]
RedirectTo(path) == [fn |-> "redirect", arg |-> path, ok |-> TRUE]

NoFields == [success |-> FALSE, data |-> <<>>, fieldErrors |-> NoErrors]
NoArgs == [id |-> 0]

(* ------------------------------- the store ---------------------------- *)

Ids == 1..MaxRows

\* invoices.amount is an integer column: a value with a fraction is refused
IntegerColumnAccepts(n) == IsInteger(n)

\* the id the store gives a new row
NewId(rows) == CHOOSE i \in Ids : \A r \in rows : r.id # i

\* new Date().toISOString(): <<calendar date, time of day>>
toISOString(t) == <<t \div TicksPerDay, t % TicksPerDay>>

\* .split('T')[0]
Today(t) == toISOString(t)[1]

\* INSERT INTO invoices (customer_id, amount, status, date) VALUES (...)
Insert(rows, up, customerId, amountInCents, status, date) ==
    IF up /\ IntegerColumnAccepts(amountInCents)
    THEN [ok |-> TRUE,
          rows |-> rows \cup {[id |-> NewId(rows), customer_id |-> customerId,
                               amount |-> amountInCents, status |-> status,
                               date |-> date]}]
    ELSE [ok |-> FALSE, rows |-> rows]

\* as Update, without the WHERE clause
UpdateAllRows(rows, up, id, customerId, amountInCents, status) ==
    IF up /\ IntegerColumnAccepts(amountInCents)
    THEN [ok |-> TRUE,
          rows |-> {[r EXCEPT !.customer_id = customerId, !.amount = amountInCents,
                              !.status = status] : r \in rows}]
    ELSE [ok |-> FALSE, rows |-> rows]

\* UPDATE invoices SET customer_id = .., amount = .., status = .. WHERE id = ..
Update(rows, up, id, customerId, amountInCents, status) ==
    IF up /\ IntegerColumnAccepts(amountInCents)
    THEN [ok |-> TRUE,
          rows |-> {IF r.id = id
                    THEN [r EXCEPT !.customer_id = customerId,
                                   !.amount = amountInCents, !.status = status]
                    ELSE r : r \in rows}]
    ELSE [ok |-> FALSE, rows |-> rows]

(* ---------------------------- server actions -------------------------- *)

InvoicesPath == "/dashboard/invoices"

Left(v, rows, effs, res) ==
    [validatedFields |-> v, rows |-> rows, effects |-> effs, result |-> res]

\* as CreateWritten, with a catch block that does not return
CreateWrittenNoReturn(v, w) ==
    Left(v, w.rows,
         <<Sql("INSERT", w.ok), RevalidatePath(InvoicesPath), RedirectTo(InvoicesPath)>>,
         Redirect(InvoicesPath))

\* createInvoice after the INSERT: the catch, or revalidatePath and redirect
CreateWritten(v, w) ==
    IF ~w.ok
    THEN Left(v, w.rows, <<Sql("INSERT", FALSE)>>,
              ReturnState(NoErrors, "Database Error: Failed to Create Invoice"))
    ELSE Left(v, w.rows,
              <<Sql("INSERT", TRUE), RevalidatePath(InvoicesPath),
                RedirectTo(InvoicesPath)>>,
              Redirect(InvoicesPath))

\* createInvoice after safeParse
CreateValidated(v, rows, up, t) ==
    IF ~v.success
    THEN Left(v, rows, <<>>,
              ReturnState(v.fieldErrors, "Missing Fields. Failed to Create Invoice."))
    ELSE CreateWritten(v, Insert(rows, up, v.data.customerId,
                                 Times100(v.data.amount), v.data.status, Today(t)))

\* createInvoice(prevState, formData): what it leaves behind
RunCreateInvoice(formData, rows, up, t) ==
    CreateValidated(safeParse(formData), rows, up, t)

\* updateInvoice after the UPDATE: the catch, or revalidatePath and redirect
UpdateWritten(v, w) ==
    IF ~w.ok
    THEN Left(v, w.rows, <<Sql("UPDATE", FALSE)>>,
              ReturnState(NoErrors, "Database Error: Failed to Update Invoice"))
    ELSE Left(v, w.rows,
              <<Sql("UPDATE", TRUE), RevalidatePath(InvoicesPath),
                RedirectTo(InvoicesPath)>>,
              Redirect(InvoicesPath))

\* updateInvoice after safeParse
UpdateValidated(id, v, rows, up) ==
    IF ~v.success
    THEN Left(v, rows, <<>>,
              ReturnState(v.fieldErrors, "Missing Fields. Failed to Update Invoice."))
    ELSE UpdateWritten(v, Update(rows, up, id, v.data.customerId,
                                 Times100(v.data.amount), v.data.status))

\* updateInvoice(id, prevState, formData): what it leaves behind
RunUpdateInvoice(id, formData, rows, up) ==
    UpdateValidated(id, safeParse(formData), rows, up)

\* as RunDeleteInvoice, without the throw: the statements after it run
RunDeleteInvoiceNoThrow(id, rows, up) ==
    IF up
    THEN Left(NoFields, {r \in rows : r.id # id},
              <<Sql("DELETE", TRUE), RevalidatePath(InvoicesPath)>>,
              Return("undefined"))
    ELSE Left(NoFields, rows, <<Sql("DELETE", FALSE)>>, Throw("connection"))

\* deleteInvoice(id): the throw comes first, nothing after it runs
RunDeleteInvoice(id, rows, up) ==
    Left(NoFields, rows, <<>>, Throw("Failed to Delete Invoice"))

(* ---------------------------- authentication -------------------------- *)

\* the classes of the values signIn can throw, each with its superclass
SuperClass(c) ==
    CASE c = "CredentialsSignin" -> "AuthError"
      [] c = "CallbackRouteError" -> "AuthError"
      [] c = "AuthError" -> "Error"
      [] OTHER -> "Object"

\* the prototype chain of an instance of c
ClassChain(c) ==
    LET up[i \in 0..3] == IF i = 0 THEN c ELSE SuperClass(up[i - 1])
    IN  {up[i] : i \in 0..3}

InstanceOf(c, target) == target \in ClassChain(c)

SignInOk == [kind |-> "ok", class |-> "", type |-> ""]
Thrown(class, type) == [kind |-> "throw", class |-> class, type |-> type]

\* as RunAuthenticate, without the instanceof test: the switch sees every error
RunAuthenticateNoInstanceOf(signIn) ==
    IF signIn.kind = "ok" THEN Return("undefined")
    ELSE IF signIn.type = "CredentialsSignin" THEN Return("Invalid credentials.")
    ELSE Return("Something went wrong.")

\* authenticate(prevState, formData), given what signIn does
RunAuthenticate(signIn) ==
    IF signIn.kind = "ok" THEN Return("undefined")
    ELSE IF InstanceOf(signIn.class, "AuthError")
         THEN IF signIn.type = "CredentialsSignin"
              THEN Return("Invalid credentials.")
              ELSE Return("Something went wrong.")
    ELSE Throw(signIn.class)

(* ---------------------------- authorization --------------------------- *)

\* String.prototype.startsWith
startsWith(s, prefix) ==
    /\ Len(s) >= Len(prefix)
    /\ \A i \in 1..Len(prefix) : s[i] = prefix[i]

DashboardPrefix == <<"/", "d", "a", "s", "h", "b", "o", "a", "r", "d">>

NoAuth == [kind |-> "null", user |-> "null"]
Session(user) == [kind |-> "object", user |-> user]

\* !!auth?.user : user is "null", "undefined" or "object"
IsLoggedIn(auth) == auth.kind = "object" /\ auth.user = "object"

\* as RunAuthorized, with an else branch that does not test isLoggedIn
RunAuthorizedAlwaysRedirect(auth, pathname) ==
    LET isLoggedIn == IsLoggedIn(auth)
        isOnDashboard == startsWith(pathname, DashboardPrefix)
    IN  IF isOnDashboard
        THEN IF isLoggedIn THEN Return("true") ELSE Return("false")
        ELSE ReturnRedirect("/dashboard")

\* authConfig.callbacks.authorized({ auth, request: { nextUrl } })
RunAuthorized(auth, pathname) ==
    LET isLoggedIn == IsLoggedIn(auth)
        isOnDashboard == startsWith(pathname, DashboardPrefix)
    IN  IF isOnDashboard
        THEN IF isLoggedIn THEN Return("true") ELSE Return("false")
        ELSE IF isLoggedIn THEN ReturnRedirect("/dashboard")
        ELSE Return("true")

(* -------------------------------- inputs ------------------------------ *)

\* what formData.get can hand to each field of the schema
CustomerIdValues == {Null, File, Str(""), Str("c1")}
AmountValues ==
    {NullChars, Chars(<<>>), Chars(<<"a", "b", "c">>), Chars(<<"0">>),
     Chars(<<"-", "5">>), Chars(<<"0", ".", "0", "0", "4">>),
     Chars(<<"2", "5", ".", "5", "0">>), Chars(<<"5", "0">>)}
StatusValues == {Null, File, Str(""), Str("draft"), Str("pending"), Str("paid")}

FormDatas ==
    [customerId : CustomerIdValues, amount : AmountValues, status : StatusValues]

Form(customerId, amount, status) ==
    [customerId |-> customerId, amount |-> amount, status |-> status]

\* the forms submitted to the server actions: those that pass the schema ...
ValidForms ==
    [customerId : {Str("c1")},
     amount : {Chars(<<"0", ".", "0", "0", "4">>),
               Chars(<<"2", "5", ".", "5", "0">>), Chars(<<"5", "0">>)},
     status : {Str("pending"), Str("paid")}]

\* ... and some that do not
InvalidForms ==
    {Form(Null, Chars(<<"2", "5", ".", "5", "0">>), Str("paid")),
     Form(Str("c1"), Chars(<<"0">>), Str("pending")),
     Form(Str("c1"), Chars(<<"a", "b", "c">>), Null)}

SubmittedForms == ValidForms \cup InvalidForms

SignInOutcomes ==
    {SignInOk,
     Thrown("CredentialsSignin", "CredentialsSignin"),
     Thrown("CallbackRouteError", "CallbackRouteError"),
     Thrown("AuthError", "AuthError"),
     Thrown("Error", "undefined"),
     Thrown("Error", "CredentialsSignin")}

Auths == {NoAuth, Session("undefined"), Session("object")}

Pathnames ==
    {<<"/">>,
     <<"/", "l", "o", "g", "i", "n">>,
     <<"/", "d", "a", "s", "h">>,
     DashboardPrefix,
     DashboardPrefix \o <<"s">>,
     DashboardPrefix \o <<"/", "i", "n", "v", "o", "i", "c", "e", "s">>,
     <<"/", "x">> \o DashboardPrefix}

NoForm == [customerId |-> Null, amount |-> NullChars, status |-> Null]

(* ------------------------------- actions ------------------------------ *)

Init ==
    /\ invoices = {}
    /\ now = 0
    /\ dbUp = TRUE
    /\ op = "none"
    /\ args = NoArgs
    /\ validatedFields = NoFields
    /\ result = None
    /\ effects = <<>>
    /\ input = NoForm
    /\ output = NoFields

\* the table, and the record of the call, after a server action
Leave(run) ==
    /\ invoices' = run.rows
    /\ validatedFields' = run.validatedFields
    /\ result' = run.result
    /\ effects' = run.effects

createInvoice(formData) ==
    /\ Cardinality(invoices) < MaxRows
    /\ Leave(RunCreateInvoice(formData, invoices, dbUp, now))
    /\ op' = "createInvoice"
    /\ args' = NoArgs
    /\ UNCHANGED <<now, dbUp, input, output>>

updateInvoice(id, formData) ==
    /\ Leave(RunUpdateInvoice(id, formData, invoices, dbUp))
    /\ op' = "updateInvoice"
    /\ args' = [id |-> id]
    /\ UNCHANGED <<now, dbUp, input, output>>

deleteInvoice(id) ==
    /\ Leave(RunDeleteInvoice(id, invoices, dbUp))
    /\ op' = "deleteInvoice"
    /\ args' = [id |-> id]
    /\ UNCHANGED <<now, dbUp, input, output>>

authenticate(signIn) ==
    /\ result' = RunAuthenticate(signIn)
    /\ op' = "authenticate"
    /\ args' = [signIn |-> signIn]
    /\ effects' = <<>>
    /\ validatedFields' = NoFields
    /\ UNCHANGED <<invoices, now, dbUp, input, output>>

authorized(auth, pathname) ==
    /\ result' = RunAuthorized(auth, pathname)
    /\ op' = "authorized"
    /\ args' = [auth |-> auth, pathname |-> pathname]
    /\ effects' = <<>>
    /\ validatedFields' = NoFields
    /\ UNCHANGED <<invoices, now, dbUp, input, output>>

\* the calls above leave a record of the last call; the environment clears it
Forget ==
    /\ op' = "none"
    /\ args' = NoArgs
    /\ validatedFields' = NoFields
    /\ result' = None
    /\ effects' = <<>>

\* the clock advances
Tick ==
    /\ now < MaxClock
    /\ now' = now + 1
    /\ Forget
    /\ UNCHANGED <<invoices, dbUp, input, output>>

\* the connection to the store is lost
ConnectionLost ==
    /\ dbUp
    /\ dbUp' = FALSE
    /\ Forget
    /\ UNCHANGED <<invoices, now, input, output>>

\* the connection to the store is back
ConnectionRestored ==
    /\ ~dbUp
    /\ dbUp' = TRUE
    /\ Forget
    /\ UNCHANGED <<invoices, now, input, output>>

Next ==
    \/ \E formData \in SubmittedForms : createInvoice(formData)
    \/ \E id \in Ids, formData \in SubmittedForms : updateInvoice(id, formData)
    \/ \E id \in Ids : deleteInvoice(id)
    \/ \E signIn \in SignInOutcomes : authenticate(signIn)
    \/ \E auth \in Auths, pathname \in Pathnames : authorized(auth, pathname)
    \/ Tick
    \/ ConnectionLost
    \/ ConnectionRestored

Spec == Init /\ [][Next]_vars

(* ------------------- the schema on every form it can see --------------- *)

InitValidate ==
    /\ invoices = {}
    /\ now = 0
    /\ dbUp = TRUE
    /\ op = "none"
    /\ args = NoArgs
    /\ validatedFields = NoFields
    /\ result = None
    /\ effects = <<>>
    /\ input \in FormDatas
    /\ output = NoFields

\* CreateInvoice.safeParse(input)
Validate ==
    /\ op = "none"
    /\ output' = safeParse(input)
    /\ op' = "safeParse"
    /\ UNCHANGED <<invoices, now, dbUp, args, validatedFields, result, effects, input>>

NextValidate == Validate

SpecValidate == InitValidate /\ [][NextValidate]_vars

(* ------------------------------- claims ------------------------------- *)

Issued(es, e) == \E i \in DOMAIN es : es[i] = e
IssuedInOrder(es, a, b) == \E i, j \in DOMAIN es : i < j /\ es[i] = a /\ es[j] = b
Writes(es) == {i \in DOMAIN es : es[i].fn = "sql"}

StatedMessage(o, passed) ==
    CASE o = "createInvoice" /\ ~passed -> "Missing Fields. Failed to Create Invoice."
      [] o = "createInvoice" /\ passed -> "Database Error: Failed to Create Invoice"
      [] o = "updateInvoice" /\ ~passed -> "Missing Fields. Failed to Update Invoice."
      [] o = "updateInvoice" /\ passed -> "Database Error: Failed to Update Invoice"

\* C1: a call of createInvoice or updateInvoice invalidates the invoice list
\* and then redirects exactly when validation passed and its one write
\* succeeded; otherwise it returns the stated message, leaves the table as it
\* was, writes at most once (not at all after a validation error) and issues
\* neither the invalidation nor the redirect.
C1_InvalidateAndRedirectIffWritten ==
    [][op' \in {"createInvoice", "updateInvoice"} =>
        LET passed == validatedFields'.success
            wrote == \E i \in Writes(effects') : effects'[i].ok
        IN  /\ Cardinality(Writes(effects')) <= 1
            /\ ~passed => Writes(effects') = {}
            /\ (passed /\ wrote) <=>
                 IssuedInOrder(effects', RevalidatePath(InvoicesPath),
                               RedirectTo(InvoicesPath))
            /\ (passed /\ wrote) => result' = Redirect(InvoicesPath)
            /\ ~(passed /\ wrote) =>
                 /\ result'.kind = "return"
                 /\ result'.value = StatedMessage(op', passed)
                 /\ invoices' = invoices
                 /\ \A i \in DOMAIN effects' :
                        effects'[i].fn \notin {"revalidatePath", "redirect"}
    ]_vars

\* a valid form met a store that was down: the one write failed
C1_Witness ==
    /\ op = "createInvoice"
    /\ validatedFields.success
    /\ invoices # {}
    /\ effects = <<Sql("INSERT", FALSE)>>
    /\ result.value = "Database Error: Failed to Create Invoice"

\* C2: createInvoice with a valid form (the store being reachable) adds exactly
\* one row, whose amount is round(amount * 100), whose customer and status
\* are the submitted ones and whose date is the date of the call.
C2_CreateStoresRoundedAmount ==
    [][(op' = "createInvoice" /\ validatedFields'.success /\ dbUp) =>
        \E r \in invoices' :
            /\ r \notin invoices
            /\ invoices' = invoices \cup {r}
            /\ r.amount = Round(Times100(validatedFields'.data.amount))
            /\ r.customer_id = validatedFields'.data.customerId
            /\ r.status = validatedFields'.data.status
            /\ r.date = Today(now)
    ]_vars

\* C3: a form whose customerId is missing or empty fails validation with
\* customerId: ["Please select a customer"], whatever the other fields are.
C3_EmptyCustomerRejected ==
    (op = "safeParse" /\ input.customerId \in {Null, Str("")}) =>
        /\ ~output.success
        /\ "customerId" \in DOMAIN output.fieldErrors
        /\ output.fieldErrors["customerId"] = <<"Please select a customer">>

NotPositive(v) == LET n == ToNumber(v) IN n.nan \/ n.m <= 0

\* C4: an amount that is empty, unparseable, zero or negative fails validation,
\* always with "Please enter an amount greater than $0."; an amount above 0
\* gets no amount error.
C4_AmountMessage ==
    op = "safeParse" =>
        IF NotPositive(input.amount)
        THEN /\ ~output.success
             /\ "amount" \in DOMAIN output.fieldErrors
             /\ output.fieldErrors["amount"] =
                    <<"Please enter an amount greater than $0.">>
        ELSE "amount" \notin DOMAIN output.fieldErrors

\* C5: a status other than "pending" and "paid" (missing, empty, any other
\* string) fails validation with "Please select an invoice status"; "pending"
\* and "paid" get no status error.
C5_StatusMessage ==
    op = "safeParse" =>
        IF input.status \in {Str("pending"), Str("paid")}
        THEN "status" \notin DOMAIN output.fieldErrors
        ELSE /\ ~output.success
             /\ "status" \in DOMAIN output.fieldErrors
             /\ output.fieldErrors["status"] = <<"Please select an invoice status">>

\* C6: updateInvoice changes at most customer_id, amount and status of the
\* row whose id matches: that row keeps its id and date, every other row is
\* as it was, and the table has the same ids (an unknown id adds no row).
C6_UpdateFrame ==
    [][op' = "updateInvoice" =>
        /\ {r.id : r \in invoices'} = {r.id : r \in invoices}
        /\ Cardinality(invoices') = Cardinality(invoices)
        /\ \A r \in invoices :
              \E q \in invoices' :
                  /\ q.id = r.id
                  /\ q.date = r.date
                  /\ r.id # args'.id => q = r
    ]_vars

\* an update went through on a later day than its row was created, beside
\* another row that differs from what was submitted
C6_Witness ==
    /\ op = "updateInvoice"
    /\ result = Redirect(InvoicesPath)
    /\ \E r \in invoices :
          /\ r.id = args.id
          /\ r.date # Today(now)
          /\ r.status = validatedFields.data.status
    /\ \E q \in invoices :
          /\ q.id # args.id
          /\ q.status # validatedFields.data.status

\* C7: deleteInvoice throws "Failed to Delete Invoice" for every id, issues
\* neither the DELETE nor the invalidation, and removes no row.
C7_DeleteAlwaysFails ==
    [][op' = "deleteInvoice" =>
        /\ result' = Throw("Failed to Delete Invoice")
        /\ \A i \in DOMAIN effects' : effects'[i].fn \notin {"sql", "revalidatePath"}
        /\ invoices' = invoices
    ]_vars

\* the delete of a row that exists, with the store reachable
C7_Witness ==
    /\ op = "deleteInvoice"
    /\ dbUp
    /\ \E r \in invoices : r.id = args.id
    /\ result.kind = "throw"

DashboardPaths ==
    {DashboardPrefix, DashboardPrefix \o <<"s">>,
     DashboardPrefix \o <<"/", "i", "n", "v", "o", "i", "c", "e", "s">>}

DecisionTable(onDashboard, isAuthenticated) ==
    CASE onDashboard /\ isAuthenticated -> Return("true")
      [] onDashboard /\ ~isAuthenticated -> Return("false")
      [] ~onDashboard /\ isAuthenticated -> ReturnRedirect("/dashboard")
      [] ~onDashboard /\ ~isAuthenticated -> Return("true")

\* C8: authorized answers by the decision table: dashboard and signed in
\* allows, dashboard and not signed in denies, elsewhere and signed in
\* redirects to /dashboard, elsewhere and not signed in allows.
C8_DecisionTable ==
    op = "authorized" =>
        result = DecisionTable(args.pathname \in DashboardPaths,
                               args.auth = Session("object"))

\* a signed-in user asks for /login and is sent to /dashboard
C8_Witness ==
    /\ op = "authorized"
    /\ args.auth = Session("object")
    /\ args.pathname = <<"/", "l", "o", "g", "i", "n">>
    /\ result = ReturnRedirect("/dashboard")

AuthErrorClasses == {"AuthError", "CredentialsSignin", "CallbackRouteError"}

\* C9: authenticate returns "Invalid credentials." for an authentication
\* error of type CredentialsSignin, "Something went wrong." for any other
\* authentication error, and lets every other error through as thrown.
C9_AuthenticateMapping ==
    (op = "authenticate" /\ args.signIn.kind = "throw") =>
        IF args.signIn.class \in AuthErrorClasses
        THEN IF args.signIn.type = "CredentialsSignin"
             THEN result = Return("Invalid credentials.")
             ELSE result = Return("Something went wrong.")
        ELSE result = Throw(args.signIn.class)

\* an error that is no authentication error, though its type field says
\* CredentialsSignin, leaves authenticate as thrown
C9_Witness ==
    /\ op = "authenticate"
    /\ args.signIn = Thrown("Error", "CredentialsSignin")
    /\ result.kind = "throw"

\* C10: every row of the invoices table has a whole amount above 0 and a
\* status that is "pending" or "paid".
C10_RowsWholePositive ==
    \A r \in invoices :
        /\ IsInteger(r.amount)
        /\ r.amount.m > 0
        /\ r.status \in {"pending", "paid"}

\* an amount below one cent passed validation and its write was refused by a
\* reachable store that already holds a row
C10_Witness ==
    /\ op \in {"createInvoice", "updateInvoice"}
    /\ validatedFields.success
    /\ ~IsInteger(Times100(validatedFields.data.amount))
    /\ dbUp
    /\ invoices # {}
    /\ effects = <<Sql(IF op = "createInvoice" THEN "INSERT" ELSE "UPDATE", FALSE)>>

====
